---------------------------- MODULE Spec2Model ----------------------------
(***************************************************************************)
(* COPAC (correlation partition clustering), src/copac.py.                 *)
(*                                                                         *)
(* Arrays keep Python's 0-based indexing: an array of length m is a        *)
(* function on 0..m-1, a matrix is an array of rows.  Real numbers are     *)
(* kept exact: alpha is the fraction alpha / AlphaDen, an explained        *)
(* variance is the fraction [num, den] (den = 0 is the NaN of 0/0), and    *)
(* the square root of a non-negative integer v is the record [sqrt |-> v]. *)
(***************************************************************************)
EXTENDS Integers, Sequences, FiniteSets, TLC

\* ---------------------------------------------------------------- bounds
\* n_features of the feature matrix (d of `n, d = X.shape`)
Dim == 2
\* eigenvalues returned by LA.eigh range over 0..MaxEig
MaxEig == 2
\* alpha ranges over the fractions 0/AlphaDen .. (AlphaDen+1)/AlphaDen
AlphaDen == 3
\* number of points analysed by the per-point loop
MaxNbhd == 2
\* number of points of the data sets whose partitions get a distance matrix
MaxPart == 4
\* the data sets are the points (s*p, (s*p)^2, ...), p = 0..n-1, s = 1..MaxStride
MaxStride == 2
\* number of points of the data sets whose partitions are clustered and merged
MaxPoints == 3
\* eps ranges over 0..MaxEps
MaxEps == 2

VARIABLES
    pc,          \* position in copac
    n,           \* n_samples
    k,           \* parameter k
    mu,          \* parameter mu
    eps,         \* parameter eps
    alpha,       \* numerator of the parameter alpha (over AlphaDen)
    P,           \* loop variable of `for P, knn in enumerate(knns)`
    E,           \* eigenvalues of the current neighbourhood, after line 122
    V,           \* eigenvectors of the current neighbourhood (columns)
    lambda_,     \* local correlation dimension of every point
    M_hat,       \* list of the correlation distance matrices
    X,           \* the feature matrix, one row per point
    Ds,          \* the partitions, in the order of the loop of line 140
    D,           \* the partition being processed
    i,           \* loop variable of the loops of lines 146 and 154
    start,       \* first free slot of cdist_P
    cdist_P,     \* condensed upper triangle: distances under M_hat of the row
    cdist_Q,     \* lower triangle of a square matrix, then its condensed form
    cdist,       \* the matrix handed to dbscan
    di,          \* position in Ds of the loop of line 140
    labels,      \* labels returned by the last dbscan call
    max_label,   \* number of cluster ids handed out so far
    y,           \* the label vector
    used_y,      \* which entries of y have been assigned
    writes,      \* history: how often each entry of y has been assigned
    calls        \* history: calls made to the collaborators

params == <<n, k, mu, eps, alpha>>
analysis == <<P, E, V, lambda_, M_hat>>
distance == <<D, i, start, cdist_P, cdist_Q, cdist>>
merging == <<Ds, di, labels, max_label, y, used_y, writes>>
vars == <<pc, params, X, analysis, distance, merging, calls>>

d == Dim

\* ------------------------------------------------------- array helpers
Idx(m) == 0 .. (m - 1)

Size(a) == Cardinality(DOMAIN a)

Range(a) == {a[j] : j \in DOMAIN a}

Empty == [j \in {} |-> 0]

RECURSIVE SumUpTo(_, _)
SumUpTo(a, j) == IF j < 0 THEN 0 ELSE a[j] + SumUpTo(a, j - 1)

\* ndarray.sum()
Sum(a) == SumUpTo(a, Size(a) - 1)

\* np.cumsum(a)
cumsum(a) == [j \in DOMAIN a |-> SumUpTo(a, j)]

\* np.sort(a): the ascending rearrangement of a; the value v takes the
\* places from the number of smaller elements on
sort(a) ==
    [j \in DOMAIN a |->
        CHOOSE v \in Range(a) :
            /\ Cardinality({t \in DOMAIN a : a[t] < v}) <= j
            /\ j < Cardinality({t \in DOMAIN a : a[t] <= v})]

\* a[::-1]
reversed(a) == [j \in DOMAIN a |-> a[Size(a) - 1 - j]]

\* ------------------------------------------------------ matrix helpers
\* np.diag(v)
diag(v) == [r \in DOMAIN v |-> [c \in DOMAIN v |-> IF r = c THEN v[r] ELSE 0]]

\* A.T
transpose(A) == [r \in DOMAIN A |-> [c \in DOMAIN A |-> A[c][r]]]

\* A @ B for square matrices
matmul(A, B) ==
    [r \in DOMAIN A |-> [c \in DOMAIN A |->
        Sum([t \in DOMAIN A |-> A[r][t] * B[t][c]])]]

\* --------------------------------------- local correlation dimension
NaN(f) == f.den = 0

\* numpy's order on floats, a < v, with NaN sorted to the end; v = key / AlphaDen
LessThanKey(f, key) == ~NaN(f) /\ f.num * AlphaDen < key * f.den

KeyLessThan(key, f) == NaN(f) \/ key * f.den < f.num * AlphaDen

RECURSIVE BisectRight(_, _, _, _)
BisectRight(a, key, lo, hi) ==
    IF lo >= hi THEN lo
    ELSE LET mid == lo + ((hi - lo) \div 2)
         IN  IF ~KeyLessThan(key, a[mid])
             THEN BisectRight(a, key, mid + 1, hi)
             ELSE BisectRight(a, key, lo, mid)

\* np.searchsorted(a, v, side='right')
searchsorted_right(a, key) == BisectRight(a, key, 0, Size(a))

RECURSIVE BisectLeft(_, _, _, _)
BisectLeft(a, key, lo, hi) ==
    IF lo >= hi THEN lo
    ELSE LET mid == lo + ((hi - lo) \div 2)
         IN  IF LessThanKey(a[mid], key)
             THEN BisectLeft(a, key, mid + 1, hi)
             ELSE BisectLeft(a, key, lo, mid)

\* np.searchsorted(a, v, side='left')
searchsorted(a, key) == BisectLeft(a, key, 0, Size(a))

\* np.cumsum(E) / E.sum()
ExplanationPortion(e) ==
    [j \in DOMAIN e |-> [num |-> cumsum(e)[j], den |-> Sum(e)]]

\* the threshold taken on the unexplained instead of the explained variance
LambdaP_residual(e, a) ==
    searchsorted(ExplanationPortion(e), AlphaDen - a) + 1

\* lines 125-127
LambdaP(e, a) == searchsorted(ExplanationPortion(e), a) + 1

\* line 130
EHat(lam) == [j \in Idx(d) |-> IF j + 1 > lam THEN 1 ELSE 0]

\* line 131
MHat(v, lam) == matmul(matmul(v, diag(EHat(lam))), transpose(v))

\* ------------------------------------------------ LA.eigh, by contract
\* The covariance of line 117 is not computed from X: the decomposition of
\* line 120 ranges over every spectrum below and both bases, which covers
\* what any neighbourhood with axis-parallel principal directions gives.
\* eigenvalues in ascending order ...
EigenValues ==
    {e \in [Idx(d) -> 0 .. MaxEig] :
        \A j \in Idx(d) : j + 1 < d => e[j] <= e[j + 1]}

\* ... and an orthonormal basis of eigenvectors, column c belonging to
\* eigenvalue c: here the coordinate axes, in their order or in reverse
EigenVectors ==
    {[r \in Idx(d) |-> [c \in Idx(d) |-> IF r = c THEN 1 ELSE 0]],
     [r \in Idx(d) |-> [c \in Idx(d) |-> IF r = d - 1 - c THEN 1 ELSE 0]]}

\* ------------------------------------------------------------- inputs
Alphas == 0 .. (AlphaDen + 1)

EpsValues == 0 .. MaxEps

\* the points (s*p, (s*p)^2, ..., (s*p)^d), p = 0..m-1
RECURSIVE Power(_, _)
Power(b, e) == IF e = 0 THEN 1 ELSE b * Power(b, e - 1)

DataSet(m, s) == [p \in Idx(m) |-> [c \in Idx(d) |-> Power(s * p, c + 1)]]

NoCalls == [neighbors |-> 0, eigen |-> 0, matrices |-> 0, dbscan |-> 0]

\* lines 97-99, for a feature matrix of m points
Entered(m) ==
    /\ n = m
    /\ \E s \in 1 .. MaxStride : X = DataSet(m, s)
    /\ y = [j \in Idx(m) |-> -1]
    /\ writes = [j \in Idx(m) |-> 0]

\* lines 104-105
NotAnalysed ==
    /\ lambda_ = [j \in Idx(n) |-> 0]
    /\ M_hat = Empty
    /\ P = 0 /\ E = Empty /\ V = Empty

\* nothing of lines 134-177 has run
NotPartitioned ==
    /\ Ds = Empty /\ di = 0 /\ labels = Empty /\ max_label = 0
    /\ used_y = Empty
    /\ D = Empty /\ i = 0 /\ start = 0
    /\ cdist_P = Empty /\ cdist_Q = Empty /\ cdist = Empty

\* ---------------------------------------------------------- analysis

\* the state after line 112, the neighbours found
InitAnalyze ==
    /\ pc = "analyze"
    /\ \E m \in 2 .. MaxNbhd : Entered(m)
    /\ NotAnalysed /\ NotPartitioned
    /\ k = n - 1 /\ mu = 1 /\ eps = 1
    /\ alpha \in Alphas
    /\ calls = [NoCalls EXCEPT !.neighbors = 1]

\* one iteration of the loop of lines 113-131
AnalyzePoint ==
    /\ pc = "analyze"
    /\ P < n
    /\ \E w \in EigenValues, v \in EigenVectors :
         LET e == reversed(sort(w))
             lambda_P == LambdaP(e, alpha)
         IN  /\ E' = e
             /\ V' = v
             /\ lambda_' = [lambda_ EXCEPT ![P] = lambda_P]
             /\ M_hat' = [j \in Idx(P + 1) |->
                             IF j = P THEN MHat(v, lambda_P) ELSE M_hat[j]]
    /\ P' = P + 1
    /\ calls' = [calls EXCEPT !.eigen = @ + 1]
    /\ UNCHANGED <<pc, params, X, distance, merging>>

NextAnalyze == AnalyzePoint

SpecAnalyze == InitAnalyze /\ [][NextAnalyze]_vars

\* ---------------------------------------------------------- partitions
\* np.argsort(a), ties in index order (numpy sorts short arrays by insertion)
argsort(a) ==
    [q \in DOMAIN a |->
        CHOOSE j \in DOMAIN a :
            q = Cardinality({t \in DOMAIN a :
                                \/ a[t] < a[j]
                                \/ a[t] = a[j] /\ t < j})]

\* np.histogram(a, bins=np.arange(1, d + 2))[0]: d bins [b+1, b+2), the last
\* one closed on the right
histogram(a) ==
    [b \in Idx(d) |->
        Cardinality({j \in DOMAIN a :
            \/ b + 1 <= a[j] /\ a[j] < b + 2
            \/ b = d - 1 /\ a[j] = d + 1})]

\* a[lo:hi]
Slice(a, lo, hi) ==
    LET top == IF hi < Size(a) THEN hi ELSE Size(a)
        len == IF top > lo THEN top - lo ELSE 0
    IN  [j \in Idx(len) |-> a[lo + j]]

\* np.split(a, cuts): the pieces a[:c0], a[c0:c1], ..., a[c_last:]
split(a, cuts) ==
    [t \in Idx(Size(cuts) + 1) |->
        Slice(a, IF t = 0 THEN 0 ELSE cuts[t - 1],
                 IF t = Size(cuts) THEN Size(a) ELSE cuts[t])]

\* the bin counts themselves taken as the places to split at
Partitions_nocumsum(lam) ==
    LET argsorted == argsort(lam)
        edges == histogram([j \in DOMAIN lam |-> lam[argsorted[j]]])
    IN  split(argsorted, edges)

\* lines 134-136
Partitions(lam) ==
    LET argsorted == argsort(lam)
        edges == histogram([j \in DOMAIN lam |-> lam[argsorted[j]]])
    IN  split(argsorted, cumsum(edges))

\* ------------------------------------------------ correlation distance
Max(a, b) == IF a >= b THEN a ELSE b

\* np.sqrt of an integer, kept as its radicand (a negative one is NaN)
Sqrt(v) == [sqrt |-> v]

\* x[idx] for an index array idx
Take(x, idx) == [j \in DOMAIN idx |-> x[idx[j]]]

\* lines 34-35
_cdist(Pv, Q, Mhat_P) ==
    [j \in DOMAIN Q |->
        LET PQ_diff == [c \in Idx(d) |-> Pv[c] - Q[j][c]]
            row == [c \in Idx(d) |->
                       Sum([t \in Idx(d) |-> PQ_diff[t] * Mhat_P[t][c]])]
        IN  Sum([c \in Idx(d) |-> row[c] * PQ_diff[c]])]

Concat(a, b) ==
    [j \in Idx(Size(a) + Size(b)) |->
        IF j < Size(a) THEN a[j] ELSE b[j - Size(a)]]

RECURSIVE TriuFrom(_, _)
TriuFrom(r, m) ==
    IF r >= m - 1 THEN Empty
    ELSE Concat([j \in Idx(m - 1 - r) |-> <<r, r + 1 + j>>], TriuFrom(r + 1, m))

\* np.triu_indices(m, k=1): the pairs r < c, row by row
triu_indices(m) == TriuFrom(0, m)

RECURSIVE TrilFrom(_, _)
TrilFrom(r, m) ==
    IF r >= m THEN Empty
    ELSE Concat([j \in Idx(r) |-> <<r, j>>], TrilFrom(r + 1, m))

\* np.tril_indices(m, k=-1): the pairs r > c, row by row
tril_indices(m) == TrilFrom(1, m)

\* the lower triangle read in its own row-major order
ExtractTril_rowmajor(Q) ==
    LET ix == tril_indices(Size(Q))
    IN  [j \in DOMAIN ix |-> Q[ix[j][1]][ix[j][2]]]

\* line 160: cdist_Q.T[np.triu_indices_from(cdist_Q, k=1)]
ExtractTril(Q) ==
    LET ix == triu_indices(Size(Q))
        QT == transpose(Q)
    IN  [j \in DOMAIN ix |-> QT[ix[j][1]][ix[j][2]]]

\* lines 161-163
RootOfMax(a, b) == [j \in DOMAIN a |-> Sqrt(Max(a[j], b[j]))]

\* scipy's squareform of a condensed vector; an empty vector gives the
\* 1 x 1 zero matrix
squareform(v) ==
    LET m == CHOOSE t \in 1 .. (2 * Size(v) + 1) : t * (t - 1) = 2 * Size(v)
        ix == triu_indices(m)
        slot(r, c) == CHOOSE j \in DOMAIN ix : ix[j] = <<r, c>>
    IN  [r \in Idx(m) |-> [c \in Idx(m) |->
            IF r = c THEN Sqrt(0)
            ELSE IF r < c THEN v[slot(r, c)] ELSE v[slot(c, r)]]]

\* l eigenvalues 1 and d - l eigenvalues 0, in descending order
UnitSpectrum(l) == [j \in Idx(d) |-> IF j < l THEN 1 ELSE 0]

\* what lines 120-131 compute for a neighbourhood whose covariance has the
\* spectrum e (descending) and the eigenvectors v
Outcome(e, v) ==
    [E |-> e, V |-> v, lam |-> LambdaP(e, alpha),
     M |-> MHat(v, LambdaP(e, alpha))]

\* the state after line 131 when the neighbourhood of point p has had the
\* outcome rec[p]
AnalysedAs(rec) ==
    /\ P = n
    /\ E = rec[n - 1].E
    /\ V = rec[n - 1].V
    /\ lambda_ = [p \in Idx(n) |-> rec[p].lam]
    /\ M_hat = [p \in Idx(n) |-> rec[p].M]
    /\ calls = [NoCalls EXCEPT !.neighbors = 1, !.eigen = n]

\* lines 142-143
SentinelVector(m) == [j \in Idx((m * (m - 1)) \div 2) |-> -1]

SentinelMatrix(m) == [r \in Idx(m) |-> [c \in Idx(m) |-> -1]]

\* lines 134-139
Partition ==
    /\ pc = "analyze"
    /\ P = n
    /\ Ds' = Partitions(lambda_)
    /\ max_label' = 0
    /\ used_y' = [j \in Idx(n) |-> FALSE]
    /\ di' = 0
    /\ pc' = "loop"
    /\ UNCHANGED <<params, X, analysis, distance, labels, y, writes, calls>>

\* lines 140-144: the next partition D of Ds
EnterPartition ==
    /\ pc = "loop"
    /\ di < Size(Ds)
    /\ D' = Ds[di]
    /\ cdist_P' = SentinelVector(Size(Ds[di]))
    /\ cdist_Q' = SentinelMatrix(Size(Ds[di]))
    /\ start' = 0
    /\ i' = 0
    /\ pc' = "triu"
    /\ UNCHANGED <<params, X, analysis, cdist, merging, calls>>

\* the state after line 131 for every data set, when the neighbourhood of
\* every point has l unit and d - l zero eigenvalues, for every l and every
\* axis order of its eigenvectors
InitDist ==
    /\ pc = "analyze"
    /\ \E m \in 2 .. MaxPart : Entered(m)
    /\ NotPartitioned
    /\ k = n - 1 /\ mu = 1 /\ eps = 1
    /\ alpha = AlphaDen - 1
    /\ \E rec \in [Idx(n) ->
                    {Outcome(UnitSpectrum(l), v) :
                        l \in 1 .. d, v \in EigenVectors}] :
         AnalysedAs(rec)

n_D == Size(D)

\* lines 147-151: cdist_P after the iteration ii, which fills from slot st
TriuStep(cP, st, ii, Dn) ==
    LET p == Dn[ii]
        q == Slice(Dn, ii + 1, Size(Dn))
        stop == st + Size(Dn) - ii - 1
        row == _cdist(X[p], Take(X, q), M_hat[p])
    IN  [j \in DOMAIN cP |->
            IF st <= j /\ j < stop THEN row[j - st] ELSE cP[j]]

\* lines 155-157: cdist_Q after the iteration ii
TrilStep(cQ, ii, Dn) ==
    LET q == Dn[ii]
        p == Slice(Dn, 0, ii)
        row == _cdist(X[q], Take(X, p), M_hat[q])
    IN  [cQ EXCEPT ![ii] =
            [c \in Idx(Size(Dn)) |-> IF c < ii THEN row[c] ELSE @[c]]]

\* one iteration of the loop of lines 146-152
TriuRow ==
    /\ pc = "triu"
    /\ i < n_D - 1
    /\ cdist_P' = TriuStep(cdist_P, start, i, D)
    /\ start' = start + n_D - i - 1
    /\ i' = i + 1
    /\ UNCHANGED <<pc, params, analysis, X, D, cdist_Q, cdist, merging, calls>>

\* the loop of line 146 is over, the loop of line 154 starts
TriuDone ==
    /\ pc = "triu"
    /\ i >= n_D - 1
    /\ pc' = "tril"
    /\ i' = 1
    /\ UNCHANGED <<params, analysis, X, D, start, cdist_P, cdist_Q, cdist,
                   merging, calls>>

\* one iteration of the loop of lines 154-157
TrilRow ==
    /\ pc = "tril"
    /\ i < n_D
    /\ cdist_Q' = TrilStep(cdist_Q, i, D)
    /\ i' = i + 1
    /\ UNCHANGED <<pc, params, analysis, X, D, start, cdist_P, cdist, merging, calls>>

\* lines 160-166
Combine ==
    /\ pc = "tril"
    /\ i >= n_D
    /\ cdist_Q' = ExtractTril(cdist_Q)
    /\ cdist' = squareform(RootOfMax(cdist_P, cdist_Q'))
    /\ pc' = "dbscan"
    /\ calls' = [calls EXCEPT !.matrices = @ + 1]
    /\ UNCHANGED <<params, analysis, X, D, i, start, cdist_P, merging>>

NextDist ==
    Partition \/ EnterPartition \/ TriuRow \/ TriuDone \/ TrilRow \/ Combine

SpecDist == InitDist /\ [][NextDist]_vars

\* ------------------------------------------------- clustering and merge
\* sklearn's dbscan(X=M, eps=r, min_samples=ms, metric='precomputed').
\* The neighbours of a point are the points at distance <= eps, itself
\* included; a core point has at least min_samples neighbours.
Neighbours(M, r, a) ==
    {b \in DOMAIN M : M[a][b].sqrt >= 0 /\ M[a][b].sqrt <= r * r}

IsCore(M, r, ms, a) == Cardinality(Neighbours(M, r, a)) >= ms

\* the points reached from C through the neighbourhoods of core points
RECURSIVE Expand(_, _, _, _)
Expand(C, M, r, ms) ==
    LET more == C \cup UNION {Neighbours(M, r, a) :
                                 a \in {c \in C : IsCore(M, r, ms, c)}}
    IN  IF more = C THEN C ELSE Expand(more, M, r, ms)

\* the scan over the points: an unlabelled core point starts the cluster
\* label_num, which takes every unlabelled point reached from it
RECURSIVE DbscanFrom(_, _, _, _, _, _)
DbscanFrom(a, lab, label_num, M, r, ms) ==
    IF a >= Size(M) THEN lab
    ELSE IF lab[a] # -1 \/ ~IsCore(M, r, ms, a)
         THEN DbscanFrom(a + 1, lab, label_num, M, r, ms)
         ELSE LET C == Expand({a}, M, r, ms)
              IN  DbscanFrom(a + 1,
                      [j \in DOMAIN lab |->
                          IF j \in C /\ lab[j] = -1 THEN label_num ELSE lab[j]],
                      label_num + 1, M, r, ms)

\* the labels dbscan returns: -1 for noise, else the cluster id
dbscan(M, r, ms) == DbscanFrom(0, [j \in DOMAIN M |-> -1], 0, M, r, ms)

\* the largest label instead of the number of labels
NewLabels_max(lab) ==
    IF \E j \in DOMAIN lab : lab[j] >= 0
    THEN CHOOSE v \in Range(lab) : \A j \in DOMAIN lab : lab[j] <= v
    ELSE 0

\* line 173: np.unique(labels[labels >= 0]).size
NewLabels(lab) == Cardinality({lab[j] : j \in DOMAIN lab} \ {-1})

\* a[idx] = vals, a one-element vals broadcast
Assign(a, idx, vals) ==
    [j \in DOMAIN a |->
        IF \E t \in DOMAIN idx : idx[t] = j
        THEN LET t == CHOOSE t \in DOMAIN idx :
                          /\ idx[t] = j
                          /\ \A u \in DOMAIN idx : idx[u] = j => u <= t
             IN  IF Size(vals) = 1 THEN vals[0] ELSE vals[t]
        ELSE a[j]]

\* lines 167-177; dbscan rejects eps <= 0
Cluster ==
    /\ pc = "dbscan"
    /\ calls' = [calls EXCEPT !.dbscan = @ + 1]
    /\ IF eps <= 0
       THEN /\ pc' = "ValueError"
            /\ UNCHANGED merging
       ELSE /\ LET lab == dbscan(cdist, eps, mu)
                    y_D == [j \in DOMAIN lab |-> lab[j] + max_label]
               IN  /\ labels' = lab
                   /\ max_label' = max_label + NewLabels(lab)
                   /\ y' = Assign(y, D, y_D)
            /\ used_y' = Assign(used_y, D, [j \in Idx(1) |-> TRUE])
            /\ writes' = [j \in DOMAIN writes |->
                             writes[j] + Cardinality({t \in DOMAIN D : D[t] = j})]
            /\ di' = di + 1
            /\ pc' = "loop"
            /\ UNCHANGED Ds
    /\ UNCHANGED <<params, X, analysis, distance>>

\* lines 178-179
Return ==
    /\ pc = "loop"
    /\ di >= Size(Ds)
    /\ pc' = IF \A j \in DOMAIN used_y : used_y[j]
             THEN "returned" ELSE "AssertionError"
    /\ UNCHANGED <<params, X, analysis, distance, merging, calls>>

\* the state after line 131 for every data set and all valid parameters,
\* when the neighbourhood of every point has l unit and d - l zero
\* eigenvalues, for every l and every axis order of its eigenvectors
InitMerge ==
    /\ pc = "analyze"
    /\ \E m \in 2 .. MaxPoints : Entered(m)
    /\ NotPartitioned
    /\ k = n - 1
    /\ mu \in 1 .. k
    /\ eps \in 1 .. MaxEps
    /\ alpha = AlphaDen - 1
    /\ \E rec \in [Idx(n) ->
                    {Outcome(UnitSpectrum(l), v) :
                        l \in 1 .. d, v \in EigenVectors}] :
         AnalysedAs(rec)

NextMerge ==
    \/ Partition \/ EnterPartition \/ TriuRow \/ TriuDone \/ TrilRow
    \/ Combine \/ Cluster \/ Return

SpecMerge == InitMerge /\ [][NextMerge]_vars

\* ------------------------------------------------------- the whole call
\* lines 108-112: NearestNeighbors rejects k < 1 when fitted, and its query
\* without the points themselves rejects k > n - 1
FitNeighbors ==
    /\ pc = "neighbors"
    /\ IF k < 1 \/ k > n - 1
       THEN pc' = "ValueError" /\ UNCHANGED calls
       ELSE pc' = "analyze" /\ calls' = [calls EXCEPT !.neighbors = @ + 1]
    /\ UNCHANGED <<params, X, analysis, distance, merging>>

\* the call copac(X, k, mu, eps, alpha), lines 97-105 done
Init ==
    /\ pc = "neighbors"
    /\ \E m \in 1 .. MaxNbhd : Entered(m)
    /\ NotAnalysed /\ NotPartitioned
    /\ k \in 0 .. n
    /\ mu \in 0 .. n
    /\ eps \in EpsValues
    /\ alpha \in Alphas
    /\ calls = NoCalls

Next ==
    \/ FitNeighbors \/ AnalyzePoint
    \/ Partition \/ EnterPartition \/ TriuRow \/ TriuDone \/ TrilRow
    \/ Combine \/ Cluster \/ Return

Spec == Init /\ [][Next]_vars

\* ------------------------------------------- claims on the distance matrix
\* the double sum of u[r] * M[r][c] * u[c] over the first m rows
RECURSIVE QuadRows(_, _, _)
QuadRows(u, M, m) ==
    IF m = 0 THEN 0
    ELSE QuadRows(u, M, m - 1)
         + u[m - 1] * Sum([c \in Idx(d) |-> M[m - 1][c] * u[c]])

\* cdist(p, q): the quadratic form of X[q] - X[p] under M_hat of p
Directional(p, q) ==
    QuadRows([c \in Idx(d) |-> X[q][c] - X[p][c]], M_hat[p], d)

\* C4: for a partition of at least two points the matrix handed to dbscan
\* has, at [a][b] and at [b][a], the root of the larger of the two
\* directional values of the pair D[a], D[b], and a zero diagonal
C4_SymmetrizedDistance ==
    (pc = "dbscan" /\ n_D >= 2) =>
        /\ Size(cdist) = n_D
        /\ \A a \in Idx(n_D) :
             /\ Size(cdist[a]) = n_D
             /\ cdist[a][a] = Sqrt(0)
        /\ \A a \in Idx(n_D), b \in Idx(n_D) :
             a # b =>
                 /\ cdist[a][b] = Sqrt(Max(Directional(D[a], D[b]),
                                           Directional(D[b], D[a])))
                 /\ cdist[a][b] = cdist[b][a]

\* a partition of four points with a pair, not in the first row, whose two
\* directional values differ and whose larger one is that of the later point
C4_Witness ==
    /\ pc = "dbscan"
    /\ n_D >= 4
    /\ Directional(D[2], D[1]) > Directional(D[1], D[2])
    /\ Directional(D[1], D[2]) > 0
    /\ cdist[1][2] = Sqrt(Directional(D[2], D[1]))

\* ------------------------------------------------- claims on the merge
\* the partition D has just been clustered and merged
Merged == pc \in {"loop", "returned"} /\ di >= 1

\* C1: after a partition is merged, its points with local label -1 have -1
\* in y, and its points with local label l >= 0 have l + offset, offset
\* being max_label before the merge
C1_NoiseStaysNoise ==
    Merged =>
        LET offset == max_label - NewLabels(labels)
        IN  \A t \in DOMAIN D :
                /\ labels[t] = -1 => y[D[t]] = -1
                /\ labels[t] >= 0 => y[D[t]] = labels[t] + offset

\* C2: in the returned vector two points of different partitions never
\* carry the same non-negative label
C2_NoCollision ==
    pc = "returned" =>
        \A a \in Idx(n), b \in Idx(n) :
            (lambda_[a] # lambda_[b] /\ y[a] >= 0 /\ y[b] >= 0) => y[a] # y[b]

\* the places of Ds that hold the index j
PlacesOf(j) ==
    {<<t, u>> \in (DOMAIN Ds) \X Idx(n) : u \in DOMAIN Ds[t] /\ Ds[t][u] = j}

\* C6: every index is in exactly one partition, at one place; when copac
\* returns every entry of y has been written exactly once, and the final
\* assertion never fails
C6_PartitionComplete ==
    /\ pc \in {"loop", "triu", "tril", "dbscan", "returned"} =>
           \A j \in Idx(n) : Cardinality(PlacesOf(j)) = 1
    /\ pc = "returned" => \A j \in Idx(n) : writes[j] = 1 /\ used_y[j]
    /\ pc # "AssertionError"

\* copac has returned after merging two partitions that hold points
C6_Witness ==
    /\ pc = "returned"
    /\ Size(Ds[0]) >= 2
    /\ Size(Ds[1]) >= 1

\* C9: the returned vector has length n and every entry is -1 or an id in
\* [0, max_label)
C9_LabelsInRange ==
    pc = "returned" =>
        /\ DOMAIN y = Idx(n)
        /\ \A j \in Idx(n) : y[j] = -1 \/ (0 <= y[j] /\ y[j] < max_label)

\* a returned vector that holds noise and the largest id
C9_Witness ==
    /\ pc = "returned"
    /\ \E j \in Idx(n) : y[j] = -1
    /\ \E j \in Idx(n) : y[j] >= 0 /\ y[j] = max_label - 1

\* C10: clustering an empty partition changes neither max_label nor y, and
\* the ids of the returned vector are exactly 0 .. max_label - 1
C10_EmptyPartitionSkipped ==
    /\ [][(pc = "dbscan" /\ Size(D) = 0) => (max_label' = max_label /\ y' = y)]_vars
    /\ [](pc = "returned" => Range(y) \ {-1} = Idx(max_label))

\* ---------------------------------------------- claims on the whole call
ParamsInvalid ==
    \/ k < 1
    \/ mu < 1
    \/ mu > k
    \/ eps <= 0
    \/ alpha <= 0
    \/ alpha >= AlphaDen

\* C3: a call with an invalid parameter makes no neighbour query, no
\* eigen-analysis, no distance matrix and no clustering call, and returns
\* no label vector
C3_InvalidParameterRejected ==
    ParamsInvalid => (calls = NoCalls /\ pc # "returned")

\* ------------------------------------------------ claims on the analysis
AlphaValid == 0 < alpha /\ alpha < AlphaDen

\* the point analysed last
Analysed == pc = "analyze" /\ P >= 1

\* cumulative explained variance of the first j+1 eigenvalues is >= a/AlphaDen
Reached(e, j, a) == cumsum(e)[j] * AlphaDen >= a * Sum(e)

\* C7: with non-zero total variance and 0 < alpha < 1, lambda_P is 1 + the
\* smallest index at which the cumulative explained variance is >= alpha
\* (equality counts), and 1 <= lambda_P <= d
C7_LambdaIsFirstReached ==
    (Analysed /\ AlphaValid /\ Sum(E) > 0) =>
        /\ \E j \in Idx(d) :
             /\ Reached(E, j, alpha)
             /\ \A t \in Idx(j) : ~Reached(E, t, alpha)
             /\ lambda_[P - 1] = j + 1
        /\ 1 <= lambda_[P - 1]
        /\ lambda_[P - 1] <= d

\* a point whose explained variance meets alpha exactly, before the last index
C7_Witness ==
    /\ Analysed /\ AlphaValid /\ Sum(E) > 0
    /\ lambda_[P - 1] < d
    /\ cumsum(E)[lambda_[P - 1] - 1] * AlphaDen = alpha * Sum(E)

\* C8: on the same neighbourhood, a smaller threshold never gives a larger
\* and a larger threshold never gives a smaller correlation dimension than
\* the one computed
C8_MonotoneInAlpha ==
    (Analysed /\ AlphaValid) =>
        \A a \in 1 .. (AlphaDen - 1) :
            /\ a <= alpha => LambdaP(E, a) <= lambda_[P - 1]
            /\ a >= alpha => LambdaP(E, a) >= lambda_[P - 1]

\* a neighbourhood on which two thresholds give different dimensions
C8_Witness ==
    /\ Analysed /\ AlphaValid
    /\ \E a \in 1 .. (AlphaDen - 1) : a < alpha /\ LambdaP(E, a) < lambda_[P - 1]

\* eigenvalue belonging to column c of V (LA.eigh's ascending order)
EigenvalueOfColumn(c) == E[d - 1 - c]

\* sum of v * v^T over the columns v of V in S
ProjectorOnto(S) ==
    [r \in Idx(d) |-> [c \in Idx(d) |->
        Sum([t \in Idx(d) |-> IF t \in S THEN V[r][t] * V[c][t] ELSE 0])]]

\* C5: M_hat_P is the sum of v * v^T over d - lambda_P eigenvectors that
\* belong to the smallest eigenvalues
C5_NoiseProjector ==
    (Analysed /\ AlphaValid) =>
        \E S \in SUBSET Idx(d) :
            /\ Cardinality(S) = d - lambda_[P - 1]
            /\ \A s \in S, t \in Idx(d) \ S :
                   EigenvalueOfColumn(s) <= EigenvalueOfColumn(t)
            /\ M_hat[P - 1] = ProjectorOnto(S)

=============================================================================
